---- MODULE Spec2Model ----
(***************************************************************************)
(* Model of the working-time tracker (temps.py) and of its companion       *)
(* notification tool (notify.py).                                          *)
(*                                                                         *)
(* One state transition is one run of a command line tool: the log file    *)
(* is loaded, run() is called with one action, and the result is persisted *)
(* or dropped, as the __main__ block does; then the process exits.  One    *)
(* process runs at a time, and between two runs the wall clock may         *)
(* advance.                                                                *)
(*                                                                         *)
(* Three specifications share the actions: Spec starts the tools on logs   *)
(* as the engine writes them, SpecLoaded starts them on any file of        *)
(* well-formed rows, and SpecRun has an importing module call run().       *)
(*                                                                         *)
(* Encodings.                                                              *)
(*  - a datetime.date is the day number d of January 2024; its "%y/%m/%d"  *)
(*    text "24/01/dd" is the tuple <<24, 1, d>>, and texts are ordered as  *)
(*    Python orders strings of equal width, field by field;                *)
(*  - a datetime.time is the record [hour, minute]; its "%Hh%M" text       *)
(*    "HHhMM" is the tuple <<HH, MM>>; the empty text '' is <<>>;          *)
(*  - Python's None is the record None;                                    *)
(*  - hours_per_day is None or a float, given in tenths of an hour         *)
(*    ([tenths |-> 80] is 8.0).                                            *)
(***************************************************************************)
EXTENDS Integers, Sequences, FiniteSets, TLC

(* Bounds of the model. *)
MaxDay == 2
MaxLen == 2

None == [none |-> TRUE]
EmptyStr == <<>>

time(hour, minute) == [hour |-> hour, minute |-> minute]

(* The times of day the wall clock is read at: 07h00 and 18h00. *)
ClockTimes == {time(7, 0), time(18, 0)}

(* The sessions found in a seeded log, as the start and stop texts of a row:
   08h00-12h00, 09h00-17h30, 13h00-16h05, and an arrival at 08h00 with no
   departure. *)
SeedFinished == {<<(<<8, 0>>), (<<12, 0>>)>>, <<(<<9, 0>>), (<<17, 30>>)>>,
                 <<(<<13, 0>>), (<<16, 5>>)>>}
SeedUnfinished == {<<(<<8, 0>>), EmptyStr>>}

(* The values of --hours-per-day tried: absent, 0.0, 8.0 and 8.5. *)
HoursChoices == {None, [tenths |-> 0], [tenths |-> 80], [tenths |-> 85]}

(* The two files of the working directory: "temps" is ./temps, the default
   of --timefile and of get_data, set_data and add_data. *)
FileNames == {"temps", "other"}

VARIABLES
    files,      \* file name -> the rows of the file, each <<date, start, stop>> texts
    clock,      \* datetime.datetime.now(): [day, hour, minute]
    call,       \* the command line of the last run
    loaded,     \* the entries as parsed from the file by the last run
    entries,    \* the caller's tuple of Entry objects after run() returned
    ret,        \* what run() returned or raised
    stdout,     \* the messages printed by the last run
    wrote,      \* the names of the files the last run opened for writing
    notified    \* the notifications the last run dispatched

vars == <<files, clock, call, loaded, entries, ret, stdout, wrote, notified>>

Last(s) == s[Len(s)]
Front(s) == SubSeq(s, 1, Len(s) - 1)

----------------------------------------------------------------------------
(* The clock source. *)

strftime_ymd(d) == <<24, 1, d>>
strftime_HhM(t) == <<t.hour, t.minute>>

(* A variant of date_from_now that always gives the first day. *)
date_from_first_day == strftime_ymd(1)

date_from_now == strftime_ymd(clock.day)
time_from_now == strftime_HhM(time(clock.hour, clock.minute))
datetime_time_from_now == time(clock.hour, clock.minute)

datetime_time_from_hour(hour) ==
    IF hour = None THEN None ELSE time(hour[1], hour[2])

datetime_date_from_date(date) == date[3]

(* The order of two date texts, as Python compares strings. *)
StrLess(a, b) ==
    \/ a[1] < b[1]
    \/ a[1] = b[1] /\ a[2] < b[2]
    \/ a[1] = b[1] /\ a[2] = b[2] /\ a[3] < b[3]

----------------------------------------------------------------------------
(* class Entry *)

Entry(date_base, time_start, time_stop) ==
    [date_base |-> date_base, time_start |-> time_start, time_stop |-> time_stop]

is_unfinished(e) == e.time_stop = None

hr_date(e) == strftime_ymd(e.date_base)
hr_start(e) == strftime_HhM(e.time_start)
hr_stop(e) == IF is_unfinished(e) THEN EmptyStr ELSE strftime_HhM(e.time_stop)

(* Entry.__iter__: the three texts of an entry. *)
iter(e) == <<hr_date(e), hr_start(e), hr_stop(e)>>

from_tuple(date_, start, stop) ==
    Entry(datetime_date_from_date(date_),
          datetime_time_from_hour(start),
          IF stop = None \/ stop = EmptyStr THEN None
          ELSE datetime_time_from_hour(stop))

(* A variant of now_arrived that records the arrival as already ended. *)
now_arrived_finished == from_tuple(date_from_now, time_from_now, time_from_now)

now_arrived == from_tuple(date_from_now, time_from_now, None)

is_today(e) == hr_date(e) = date_from_now

(* Entry.working_time: datetime.time(hour, minute) raises ValueError unless
   0 <= hour <= 23, which a negative difference violates. *)
working_time(e) ==
    LET start == e.time_start.hour * 60 + e.time_start.minute
        stop == IF is_unfinished(e)
                THEN datetime_time_from_now.hour * 60 + datetime_time_from_now.minute
                ELSE e.time_stop.hour * 60 + e.time_stop.minute
        wt == stop - start
    IN  [raises |-> (wt \div 60 < 0) \/ (wt \div 60 > 23),
         hour |-> wt \div 60, minute |-> wt % 60]

(* set_finish_now and set_start_now: ok is the outcome of the assertion. *)
set_finish_now(e) ==
    IF is_unfinished(e)
    THEN [ok |-> TRUE, e |-> [e EXCEPT !.time_stop = datetime_time_from_now]]
    ELSE [ok |-> FALSE, e |-> e]

(* A variant of set_start_now that also ends the session. *)
set_start_now_and_finish(e) ==
    IF is_unfinished(e)
    THEN [ok |-> TRUE, e |-> [e EXCEPT !.time_start = datetime_time_from_now,
                                       !.time_stop = datetime_time_from_now]]
    ELSE [ok |-> FALSE, e |-> e]

set_start_now(e) ==
    IF is_unfinished(e)
    THEN [ok |-> TRUE, e |-> [e EXCEPT !.time_start = datetime_time_from_now]]
    ELSE [ok |-> FALSE, e |-> e]

----------------------------------------------------------------------------
(* The log store. *)

get_data(rows) == [i \in 1..Len(rows) |-> from_tuple(rows[i][1], rows[i][2], rows[i][3])]

RowsOf(es) == [i \in 1..Len(es) |-> iter(es[i])]

(* set_data(entries, fname='temps'): the file named is rewritten in full. *)
set_data(es, fname) == [files EXCEPT ![fname] = RowsOf(es)]

----------------------------------------------------------------------------
(* run(): the accounting engine. *)

(* What a call of run() gives back: kind is "entries" (the updated tuple),
   "None" (a declined operation: print() returns None), "outdata" (the
   statistics) or "raise" (an exception, named by exc).  caller is the tuple
   the caller passed, after the in-place changes of its Entry objects. *)
NoOutdata == [x \in {} |-> 0]

Result(kind, exc, es, outdata, caller, msgs) ==
    [kind |-> kind, exc |-> exc, entries |-> es, outdata |-> outdata,
     caller |-> caller, stdout |-> msgs]

Raise(exc, caller, msgs) == Result("raise", exc, <<>>, NoOutdata, caller, msgs)

(* max(date for date, _, _ in entries) *)
max_date(es) ==
    CHOOSE d \in {iter(es[i])[1] : i \in 1..Len(es)} :
        \A j \in 1..Len(es) : ~StrLess(d, iter(es[j])[1])

(* print is a no-op under porcelain. *)
Shown(porcelain, msgs) == IF porcelain THEN <<>> ELSE msgs

(* Variants of the declined operations that return the sequence. *)
arrive_conflict_returns_entries(es, porcelain, head) ==
    Result("entries", "", es, NoOutdata, es,
           head \o Shown(porcelain, <<"Oops! The last entry is unfinished.">>))

quit_conflict_returns_entries(es, porcelain, head) ==
    Result("entries", "", es, NoOutdata, es,
           head \o Shown(porcelain, <<"Oops! No unfinished entry.">>))

(* The declined arrival: return print(...), and print returns None. *)
arrive_conflict(es, porcelain, head) ==
    Result("None", "", <<>>, NoOutdata, es,
           head \o Shown(porcelain, <<"Oops! The last entry is unfinished.">>))

(* The declined departure. *)
quit_conflict(es, porcelain, head) ==
    Result("None", "", <<>>, NoOutdata, es,
           head \o Shown(porcelain, <<"Oops! No unfinished entry.">>))

(* A variant of arrive that appends whatever the last entry is. *)
arrive_always_appends(es, g, porcelain, head) ==
    Result("entries", "", Append(es, now_arrived), NoOutdata, es,
           head \o Shown(porcelain, <<"Added a new entry, arrival now.">>))

(* action == 'arrive'.  The overwrite flag is read from the module-level
   args, not from the parameter. *)
arrive(es, g, porcelain, head) ==
    IF is_unfinished(Last(es))
    THEN IF ~g.has_args
         THEN Raise("NameError", es, head)
         ELSE IF g.args_overwrite
         THEN LET changed == [es EXCEPT ![Len(es)] = set_start_now(Last(es)).e]
              IN  Result("entries", "", changed, NoOutdata, changed,
                         head \o Shown(porcelain, <<"Changed last arrival at now.">>))
         ELSE arrive_conflict(es, porcelain, head)
    ELSE Result("entries", "", Append(es, now_arrived), NoOutdata, es,
                head \o Shown(porcelain, <<"Added a new entry, arrival now.">>))

(* action == 'quit' *)
quit(es, g, porcelain, head) ==
    IF is_unfinished(Last(es))
    THEN LET changed == [es EXCEPT ![Len(es)] = set_finish_now(Last(es)).e]
         IN  Result("entries", "", changed, NoOutdata, changed,
                    head \o Shown(porcelain, <<"Changed last entry, quitting now.">>))
    ELSE IF ~g.has_args
         THEN Raise("NameError", es, head)
         ELSE IF g.args_overwrite
         THEN IF set_finish_now(Last(es)).ok
              THEN LET changed == [es EXCEPT ![Len(es)] = set_finish_now(Last(es)).e]
                   IN  Result("entries", "", changed, NoOutdata, changed,
                              head \o Shown(porcelain, <<"Changed last quit at now.">>))
              ELSE Raise("AssertionError", es, head)
         ELSE quit_conflict(es, porcelain, head)

(* A variant of pop_today with an if in place of the while. *)
pop_today_once(list) ==
    IF Len(list) = 0
    THEN [raises |-> TRUE, entries |-> list]
    ELSE IF hr_date(Last(list)) = hr_date(now_arrived)
         THEN [raises |-> FALSE, entries |-> Front(list)]
         ELSE [raises |-> FALSE, entries |-> list]

(* The loop of 'stats' under include_today = False: entries are popped from
   the end while the last one is dated today; entries[-1] of the emptied
   list raises IndexError. *)
RECURSIVE pop_today(_)
pop_today(list) ==
    IF Len(list) = 0
    THEN [raises |-> TRUE, entries |-> list]
    ELSE IF hr_date(Last(list)) = hr_date(now_arrived)
         THEN pop_today(Front(list))
         ELSE [raises |-> FALSE, entries |-> list]

(* The accumulation loop of 'stats', from entry i on: total_worktime and
   workamount (a defaultdict: day text -> minutes). *)
RECURSIVE accumulate(_, _, _, _)
accumulate(es, i, total_worktime, workamount) ==
    IF i > Len(es)
    THEN [raises |-> FALSE, total_worktime |-> total_worktime, workamount |-> workamount]
    ELSE LET wt == working_time(es[i])
             worktime == wt.hour * 60 + wt.minute
             day == hr_date(es[i])
         IN  IF wt.raises
             THEN [raises |-> TRUE, total_worktime |-> total_worktime,
                   workamount |-> workamount]
             ELSE accumulate(es, i + 1, total_worktime + worktime,
                             IF day \in DOMAIN workamount
                             THEN [workamount EXCEPT ![day] = @ + worktime]
                             ELSE workamount @@ (day :> worktime))

(* sum() over the values of f at the keys S. *)
RECURSIVE sum(_, _)
sum(f, S) ==
    IF S = {} THEN 0
    ELSE LET k == CHOOSE x \in S : TRUE IN f[k] + sum(f, S \ {k})

(* A variant of round that rounds a tie up. *)
round_half_up(n, d) == (2 * n + d) \div (2 * d)

(* round(n / d) of Python 3, n >= 0 and d > 0: to the nearest integer, a tie
   to the even one. *)
round(n, d) ==
    LET q == n \div d
        r == n % d
    IN  IF 2 * r < d THEN q
        ELSE IF 2 * r > d THEN q + 1
        ELSE IF q % 2 = 0 THEN q ELSE q + 1

(* if hours_per_day: None and 0.0 are false. *)
truthy(hours_per_day) == hours_per_day # None /\ hours_per_day.tenths # 0

(* A variant of optimal_worktime that forgets the minutes of an hour. *)
optimal_worktime_hours(hours_per_day) == hours_per_day.tenths \div 10

(* int(hours_per_day * 60); the floats of HoursChoices give exact products. *)
optimal_worktime(hours_per_day) == (hours_per_day.tenths * 60) \div 10

(* action == 'stats' *)
stats(es, hours_per_day, porcelain, include_today, g, head) ==
    LET popped == IF include_today THEN [raises |-> FALSE, entries |-> es]
                  ELSE pop_today(es)
        kept == popped.entries
        acc == accumulate(kept, 1, 0, NoOutdata)
        workamount == acc.workamount
        base == [nb_day |-> Cardinality(DOMAIN workamount),
                 first_day |-> hr_date(kept[1]),
                 last_day |-> hr_date(Last(kept)),
                 total_worktime |-> acc.total_worktime]
        difftime == [day \in DOMAIN workamount |->
                        workamount[day] - optimal_worktime(hours_per_day)]
        total_difftime == sum(difftime, DOMAIN difftime)
        with_diff == IF truthy(hours_per_day)
                     THEN base @@ ("total_difftime" :> total_difftime)
                     ELSE base
        outdata == with_diff @@
                   ("average_per_day" :>
                        round(sum(workamount, DOMAIN workamount),
                              Cardinality(DOMAIN workamount)))
        msgs == head
                \o Shown(porcelain, <<"Statistics on", "You worked a total of">>)
                \o (IF truthy(hours_per_day)
                    THEN IF total_difftime > 0
                         THEN Shown(porcelain, <<"You worked too much">>)
                         ELSE Shown(porcelain, <<"You have to work">>)
                    ELSE <<>>)
                \o Shown(porcelain, <<"You are working an average of">>)
    IN  IF popped.raises THEN Raise("IndexError", es, head)
        ELSE IF acc.raises THEN Raise("ValueError", es, head)
        ELSE IF porcelain /\ ~g.builtins_module
        THEN Raise("AttributeError", es, msgs)
        ELSE Result("outdata", "", <<>>, outdata, es,
                    msgs \o (IF porcelain THEN <<"outdata">> ELSE <<>>))

(* run(action, entries, overwrite, dry_run, hours_per_day, porcelain,
   include_today).  g is the module-level state run() reads: whether the
   global args exists and its overwrite flag, and whether __builtins__ is the
   builtins module (as in __main__) or its dictionary (as CPython gives an
   imported module, where __builtins__.print raises AttributeError). *)
run(action, es, overwrite, dry_run, hours_per_day, porcelain, include_today, g) ==
    IF ~porcelain /\ ~g.builtins_module
    THEN Raise("AttributeError", es, <<>>)
    ELSE IF Len(es) = 0
    THEN Raise("ValueError", es, <<>>)
    ELSE IF max_date(es) # hr_date(Last(es))
    THEN Raise("AssertionError", es, <<>>)
    ELSE LET last_entry_is_today == hr_date(Last(es)) = hr_date(now_arrived)
             head == Shown(porcelain,
                           IF last_entry_is_today THEN <<"Last entry is today.">>
                           ELSE <<"Last entry is ... ago.">>)
         IN  CASE action = "arrive" -> arrive(es, g, porcelain, head)
               [] action = "quit" -> quit(es, g, porcelain, head)
               [] action = "stats" ->
                      stats(es, hours_per_day, porcelain, include_today, g, head)

----------------------------------------------------------------------------
(* The command line tools. *)

Command(action, overwrite, dry_run, hours_per_day, porcelain, not_today, timefile) ==
    [action |-> action, overwrite |-> overwrite, dry_run |-> dry_run,
     hours_per_day |-> hours_per_day, porcelain |-> porcelain,
     not_today |-> not_today, timefile |-> timefile]

Idle == Command("idle", FALSE, FALSE, None, FALSE, FALSE, "temps")

NoReturn == [kind |-> "idle", exc |-> "", entries |-> <<>>, outdata |-> NoOutdata]

(* Variants of persists: without the isinstance test, and without the
   dry-run test. *)
persists_any_return(r, dry_run) ==
    /\ (r.kind = "entries" /\ Len(r.entries) > 0) \/ r.kind = "outdata"
    /\ ~dry_run

persists_despite_dry_run(r, dry_run) ==
    /\ (r.kind = "entries" /\ Len(r.entries) > 0) \/ r.kind = "outdata"
    /\ r.kind = "entries"

(* The module-level state of temps.py run as __main__: args exists, and
   __builtins__ is the builtins module. *)
main_globals(overwrite) ==
    [has_args |-> TRUE, args_overwrite |-> overwrite, builtins_module |-> TRUE]

(* if ret and not args.dry_run: if isinstance(ret, tuple) and all(...). *)
persists(r, dry_run) ==
    /\ (r.kind = "entries" /\ Len(r.entries) > 0) \/ r.kind = "outdata"
    /\ ~dry_run
    /\ r.kind = "entries"

(* temps.py, __main__: load args.timefile, run, and persist a returned tuple
   of entries unless --dry-run.  set_data is called without a file name, so
   it writes its default, 'temps'. *)
Main(action, overwrite, dry_run, hours_per_day, porcelain, not_today, timefile) ==
    /\ \E es \in {get_data(files[timefile])} :
       \E r \in {run(action, es, overwrite, dry_run, hours_per_day, porcelain,
                     ~not_today, main_globals(overwrite))} :
       \E persist \in {persists(r, dry_run)} :
           /\ Len(r.entries) <= MaxLen \/ Len(r.entries) <= Len(es)
           /\ call' = Command(action, overwrite, dry_run, hours_per_day, porcelain,
                              not_today, timefile)
           /\ loaded' = es
           /\ entries' = r.caller
           /\ ret' = [kind |-> r.kind, exc |-> r.exc, entries |-> r.entries,
                      outdata |-> r.outdata]
           /\ stdout' = r.stdout
           /\ files' = IF persist THEN set_data(r.entries, "temps") ELSE files
           /\ wrote' = IF persist THEN {"temps"} ELSE {}
           /\ notified' = <<>>
           /\ UNCHANGED clock

Arrive ==
    /\ call = Idle
    /\ \E overwrite \in BOOLEAN, dry_run \in BOOLEAN, porcelain \in BOOLEAN,
          timefile \in FileNames :
           Main("arrive", overwrite, dry_run, None, porcelain, FALSE, timefile)

Quit ==
    /\ call = Idle
    /\ \E overwrite \in BOOLEAN, dry_run \in BOOLEAN, porcelain \in BOOLEAN,
          timefile \in FileNames :
           Main("quit", overwrite, dry_run, None, porcelain, FALSE, timefile)

Stats ==
    /\ call = Idle
    /\ \E dry_run \in BOOLEAN, hours_per_day \in HoursChoices, porcelain \in BOOLEAN,
          not_today \in BOOLEAN, timefile \in FileNames :
           Main("stats", FALSE, dry_run, hours_per_day, porcelain, not_today, timefile)

(* notify.py, lines 16-21: the notifications dispatched for the statistics. *)
dispatch(stats_) ==
    (IF stats_.total_difftime > 10 THEN <<"OVERWORK">> ELSE <<>>)
    \o (IF stats_.total_difftime < 10 THEN <<"WORK NEEDED">> ELSE <<>>)

(* notify.py, __main__: temps is imported, so its global args does not exist
   and its __builtins__ is what the interpreter gives an imported module. *)
Notify ==
    /\ call = Idle
    /\ \E hours_per_day \in HoursChoices \ {None}, builtins_module \in BOOLEAN :
       \E es \in {get_data(files["temps"])} :
       \E r \in {run("stats", es, FALSE, FALSE, hours_per_day, FALSE, TRUE,
                     [has_args |-> FALSE, args_overwrite |-> FALSE,
                      builtins_module |-> builtins_module])} :
       \E KeyError \in {r.kind = "outdata" /\ "total_difftime" \notin DOMAIN r.outdata} :
           /\ call' = Command("notify", FALSE, FALSE, hours_per_day, FALSE, FALSE,
                              "temps")
           /\ loaded' = es
           /\ entries' = r.caller
           /\ ret' = [kind |-> r.kind, exc |-> IF KeyError THEN "KeyError" ELSE r.exc,
                      entries |-> r.entries, outdata |-> r.outdata]
           /\ stdout' = r.stdout
           /\ notified' = IF r.kind = "outdata" /\ ~KeyError
                          THEN dispatch(r.outdata) ELSE <<>>
           /\ wrote' = {}
           /\ UNCHANGED <<files, clock>>

(* The wall clock advances between two runs. *)
Clocks == {[day |-> d, hour |-> t.hour, minute |-> t.minute] :
              d \in 1..MaxDay, t \in ClockTimes}

Later(c, d) ==
    \/ c.day < d.day
    \/ c.day = d.day /\ c.hour * 60 + c.minute < d.hour * 60 + d.minute

Tick ==
    /\ call = Idle
    /\ \E c \in Clocks : Later(clock, c) /\ clock' = c
    /\ UNCHANGED <<files, call, loaded, entries, ret, stdout, wrote, notified>>

(* The process of the last run exits: nothing of it is left but the files. *)
Exit ==
    /\ call # Idle
    /\ call' = Idle
    /\ loaded' = <<>>
    /\ entries' = <<>>
    /\ ret' = NoReturn
    /\ stdout' = <<>>
    /\ wrote' = {}
    /\ notified' = <<>>
    /\ UNCHANGED <<files, clock>>

----------------------------------------------------------------------------
(* The logs the tool is started on.  A log is a sequence of rows in the
   order the engine writes them under a clock that does not go backwards:
   no row is later than the clock, rows are in chronological order, and only
   the last row may lack its stop. *)

SeedRows == {<<strftime_ymd(d), s[1], s[2]>> :
                d \in 1..MaxDay, s \in SeedFinished \cup SeedUnfinished}

Minutes(text) == text[1] * 60 + text[2]

NotAfter(row, c) ==
    LET e == from_tuple(row[1], row[2], row[3])
        latest == IF row[3] = EmptyStr THEN Minutes(row[2]) ELSE Minutes(row[3])
    IN  \/ e.date_base < c.day
        \/ e.date_base = c.day /\ latest <= c.hour * 60 + c.minute

InOrder(a, b) ==
    \/ StrLess(a[1], b[1])
    \/ a[1] = b[1] /\ a[3] # EmptyStr /\ Minutes(a[3]) <= Minutes(b[2])

ValidLog(rows, c) ==
    /\ \A i \in 1..Len(rows) : NotAfter(rows[i], c)
    /\ \A i \in 1..Len(rows) - 1 : rows[i][3] # EmptyStr /\ InOrder(rows[i], rows[i + 1])

SeedLogs(c) ==
    UNION {{rows \in [1..n -> SeedRows] : ValidLog(rows, c)} : n \in 1..MaxLen}

OtherLogs(c) ==
    {rows \in {<<row>> : row \in SeedRows} :
        ValidLog(rows, c) /\ rows[1][1] = strftime_ymd(1) /\ rows[1][2] = <<8, 0>>}

Init ==
    /\ clock \in Clocks
    /\ \E temps \in SeedLogs(clock), other \in OtherLogs(clock) :
          files = [f \in FileNames |-> IF f = "temps" THEN temps ELSE other]
    /\ call = Idle
    /\ loaded = <<>>
    /\ entries = <<>>
    /\ ret = NoReturn
    /\ stdout = <<>>
    /\ wrote = {}
    /\ notified = <<>>

Next == Arrive \/ Quit \/ Stats \/ Notify \/ Exit \/ Tick

Spec == Init /\ [][Next]_vars

----------------------------------------------------------------------------
(* The tool started on any file.  ./temps is a text file the user may edit,
   and get_data accepts every sequence of well-formed rows: the empty file,
   rows in any order of dates, rows dated after the clock, a stop that
   precedes the start (17h00-09h00), several rows without stop. *)

MaxLoaded == 3

LoadedSessions == {<<(<<8, 0>>), (<<12, 0>>)>>, <<(<<17, 0>>), (<<9, 0>>)>>,
                   <<(<<8, 0>>), EmptyStr>>}

LoadedRows == {<<strftime_ymd(d), s[1], s[2]>> : d \in 1..MaxDay, s \in LoadedSessions}

LoadedLogs == UNION {[1..n -> LoadedRows] : n \in 0..MaxLoaded}

InitLoaded ==
    /\ clock \in Clocks
    /\ \E temps \in LoadedLogs :
          files = [f \in FileNames |->
                      IF f = "temps" THEN temps
                      ELSE <<(<<strftime_ymd(1), (<<8, 0>>), (<<12, 0>>)>>)>>]
    /\ call = Idle
    /\ loaded = <<>>
    /\ entries = <<>>
    /\ ret = NoReturn
    /\ stdout = <<>>
    /\ wrote = {}
    /\ notified = <<>>

SpecLoaded == InitLoaded /\ [][Next]_vars

----------------------------------------------------------------------------
(* run() as a function of the module: a module that imports temps calls
   run(action, entries, overwrite, porcelain=...) on the entries of ./temps,
   as notify.py calls run('stats', ...).  In the imported module the global
   args, which only the __main__ block assigns, does not exist. *)

imported_globals(builtins_module) ==
    [has_args |-> FALSE, args_overwrite |-> FALSE, builtins_module |-> builtins_module]

Call ==
    /\ call = Idle
    /\ \E action \in {"arrive", "quit"}, overwrite \in BOOLEAN, porcelain \in BOOLEAN,
          builtins_module \in BOOLEAN :
       \E es \in {get_data(files["temps"])} :
       \E r \in {run(action, es, overwrite, FALSE, None, porcelain, TRUE,
                     imported_globals(builtins_module))} :
           /\ call' = Command(action, overwrite, FALSE, None, porcelain, FALSE, "temps")
           /\ loaded' = es
           /\ entries' = r.caller
           /\ ret' = [kind |-> r.kind, exc |-> r.exc, entries |-> r.entries,
                      outdata |-> r.outdata]
           /\ stdout' = r.stdout
           /\ wrote' = {}
           /\ notified' = <<>>
           /\ UNCHANGED <<files, clock>>

NextRun == Call \/ Exit \/ Tick

SpecRun == Init /\ [][NextRun]_vars

----------------------------------------------------------------------------
(* Vocabulary of the properties. *)

Open(es) == Len(es) > 0 /\ is_unfinished(Last(es))
Closed(es) == Len(es) > 0 /\ ~is_unfinished(Last(es))

Now == time(clock.hour, clock.minute)
Today == clock.day

DateSorted(es) == \A i \in 1..Len(es) - 1 : es[i].date_base <= es[i + 1].date_base

(* The minutes of a session: stop - start, an open session measured against
   the clock. *)
Duration(e) ==
    (IF e.time_stop = None THEN Now.hour * 60 + Now.minute
     ELSE e.time_stop.hour * 60 + e.time_stop.minute)
    - (e.time_start.hour * 60 + e.time_start.minute)

(* The sum of the durations of the entries of es whose index is in I. *)
RECURSIVE SumDuration(_, _)
SumDuration(es, I) ==
    IF I = {} THEN 0
    ELSE LET i == CHOOSE x \in I : TRUE
         IN  Duration(es[i]) + SumDuration(es, I \ {i})

NotToday(es) == {i \in 1..Len(es) : es[i].date_base # Today}

(* The entries the statistics of the last run are about. *)
Counted == IF call.not_today THEN NotToday(loaded) ELSE 1..Len(loaded)
CountedDays == {loaded[i].date_base : i \in Counted}

ReturnedStats == call.action \in {"stats", "notify"} /\ ret.kind = "outdata"

----------------------------------------------------------------------------
(* C1: arrive on a non-empty log whose last entry is finished returns a log
   one entry longer, the new last entry dated today, started now and with no
   end, the earlier entries unchanged; quit on a log whose last entry is
   unfinished, as arrive leaves it, returns a log of the same length whose
   last entry is finished with end = now. *)
C1_ArriveThenQuit ==
    /\ (call.action = "arrive" /\ Closed(loaded)) =>
          /\ ret.kind = "entries"
          /\ Len(ret.entries) = Len(loaded) + 1
          /\ SubSeq(ret.entries, 1, Len(loaded)) = loaded
          /\ Last(ret.entries).date_base = Today
          /\ Last(ret.entries).time_start = Now
          /\ Last(ret.entries).time_stop = None
          /\ entries = loaded
    /\ (call.action = "quit" /\ Open(loaded)) =>
          /\ ret.kind = "entries"
          /\ Len(ret.entries) = Len(loaded)
          /\ Front(ret.entries) = Front(loaded)
          /\ Last(ret.entries) = [Last(loaded) EXCEPT !.time_stop = Now]

(* A quit that closed the session an arrival had opened at a reading of the
   clock. *)
C1_Witness ==
    /\ call.action = "quit"
    /\ Len(loaded) = MaxLen
    /\ Open(loaded)
    /\ Last(loaded).time_start \in ClockTimes
    /\ ret.kind = "entries"
    /\ Last(ret.entries).time_stop = Now

(* C2: arrive on a log whose last entry is unfinished, overwrite not
   requested, changes no entry and not the length of the log, returns None
   (the conflict, with its message unless porcelain silences it) instead of
   a sequence, and writes no file. *)
C2_ArriveConflict ==
    [][(call.action = "idle" /\ call'.action = "arrive"
        /\ Open(loaded') /\ ~call'.overwrite)
       => /\ ret'.kind = "None"
          /\ ~call'.porcelain => Last(stdout') = "Oops! The last entry is unfinished."
          /\ entries' = loaded'
          /\ wrote' = {}
          /\ files' = files]_vars

C2_Witness ==
    /\ call.action = "arrive"
    /\ Open(loaded)
    /\ ~call.overwrite
    /\ ret.kind = "None"
    /\ files[call.timefile] = RowsOf(loaded)

(* C3: quit on a log whose last entry is finished, overwrite not requested,
   returns None (the conflict, with its message unless porcelain silences
   it), changes no entry and not the length of the log, and writes no
   file. *)
C3_QuitConflict ==
    [][(call.action = "idle" /\ call'.action = "quit"
        /\ Closed(loaded') /\ ~call'.overwrite)
       => /\ ret'.kind = "None"
          /\ ~call'.porcelain => Last(stdout') = "Oops! No unfinished entry."
          /\ entries' = loaded'
          /\ wrote' = {}
          /\ files' = files]_vars

C3_Witness ==
    /\ call.action = "quit"
    /\ Closed(loaded)
    /\ ~call.overwrite
    /\ ret.kind = "None"
    /\ files[call.timefile] = RowsOf(loaded)

(* C4: on a date-sorted log, the total_worktime that stats returns under
   include_today = False is the sum of the durations of exactly the entries
   dated other than today. *)
C4_StatsExcludesToday ==
    (call.action = "stats" /\ call.not_today /\ DateSorted(loaded)
     /\ ret.kind = "outdata")
    => ret.outdata.total_worktime = SumDuration(loaded, NotToday(loaded))

(* Statistics returned for a log that holds a session of today, which is
   left out, and one of an earlier day. *)
C4_Witness ==
    /\ call.action = "stats"
    /\ call.not_today
    /\ ret.kind = "outdata"
    /\ \E i \in 1..Len(loaded) : loaded[i].date_base = Today /\ Duration(loaded[i]) > 0
    /\ ret.outdata.total_worktime > 0

(* What stats gives for the log as it is persisted after the last run, with
   the command line and the clock of that run. *)
StatsAgain ==
    LET r == run("stats", get_data(files[call.timefile]), call.overwrite,
                 call.dry_run, call.hours_per_day, call.porcelain,
                 ~call.not_today, main_globals(call.overwrite))
    IN  [kind |-> r.kind, exc |-> r.exc, entries |-> r.entries, outdata |-> r.outdata]

(* C5: stats is a pure read: it changes no entry of the log passed in and
   not its length, never returns the log, causes no file to be written (the
   file still holds the log as loaded), and a second call on the same log
   with the same clock and parameters returns the same statistics. *)
C5_StatsPureRead ==
    call.action = "stats"
    => /\ entries = loaded
       /\ ret.kind # "entries"
       /\ wrote = {}
       /\ files[call.timefile] = RowsOf(loaded)
       /\ StatsAgain = ret

(* Statistics that left out the trailing session of today, the log passed in
   and the file being as they were. *)
C5_Witness ==
    /\ call.action = "stats"
    /\ call.not_today
    /\ ret.kind = "outdata"
    /\ Last(loaded).date_base = Today
    /\ ret.outdata.last_day # hr_date(Last(loaded))
    /\ entries = loaded
    /\ files[call.timefile] = RowsOf(loaded)

(* The log of the example: 24/01/01 08h00-12h00, 24/01/02 09h00-17h30. *)
ExampleLog == <<Entry(1, time(8, 0), time(12, 0)), Entry(2, time(9, 0), time(17, 30))>>

OnExample ==
    /\ ReturnedStats
    /\ loaded = ExampleLog
    /\ ~call.not_today
    /\ call.hours_per_day = [tenths |-> 80]

(* The deviation is the sum over the distinct days counted of (minutes of
   the day - target): total_worktime - nb_day * target minutes, a day of
   several entries counting the target once. *)
DeviationPerDay ==
    (ReturnedStats /\ truthy(call.hours_per_day))
    => /\ ret.outdata.nb_day = Cardinality(CountedDays)
       /\ ret.outdata.total_worktime = SumDuration(loaded, Counted)
       /\ ret.outdata.total_difftime =
              ret.outdata.total_worktime
              - ret.outdata.nb_day * ((call.hours_per_day.tenths * 60) \div 10)

(* C6, as stated: the deviation per day, and for the example log with target
   8.0 total_worktime = 730, nb_day = 2, total_difftime = -210. *)
C6_AsStated ==
    /\ DeviationPerDay
    /\ OnExample => /\ ret.outdata.total_worktime = 730
                    /\ ret.outdata.nb_day = 2
                    /\ ret.outdata.total_difftime = -210

(* C6, amended: the deviation per day, and for the example log with target
   8.0 total_worktime = 750, nb_day = 2, total_difftime = -210. *)
C6_DeviationPerDay ==
    /\ DeviationPerDay
    /\ OnExample => /\ ret.outdata.total_worktime = 750
                    /\ ret.outdata.nb_day = 2
                    /\ ret.outdata.total_difftime = -210

C6_Witness == OnExample /\ ret.outdata.total_difftime = -210

(* The average stats returns for the log and the parameters of the last run
   under the target h. *)
AverageUnder(h) ==
    run("stats", loaded, FALSE, FALSE, h, TRUE, ~call.not_today,
        main_globals(FALSE)).outdata.average_per_day

(* C7: average_per_day is total_worktime / nb_day rounded to the nearest
   integer (a tie to the even one, as round does), nb_day being the number of
   distinct days of the entries counted; it is the same with and without a
   target; and the record has a total_difftime field exactly when
   hours_per_day is given and not zero. *)
C7_AveragePerDay ==
    ReturnedStats
    => LET n == ret.outdata.nb_day
           t == ret.outdata.total_worktime
           a == ret.outdata.average_per_day
       IN  /\ n = Cardinality(CountedDays)
           /\ t = SumDuration(loaded, Counted)
           /\ 2 * (a * n - t) <= n
           /\ 2 * (t - a * n) <= n
           /\ (2 * (a * n - t) = n \/ 2 * (t - a * n) = n) => a % 2 = 0
           /\ a = AverageUnder(None)
           /\ a = AverageUnder([tenths |-> 80])
           /\ ("total_difftime" \in DOMAIN ret.outdata) <=> truthy(call.hours_per_day)

(* Statistics with a target whose average is a tie. *)
C7_Witness ==
    /\ ReturnedStats
    /\ truthy(call.hours_per_day)
    /\ ret.outdata.nb_day = 2
    /\ ret.outdata.total_worktime % 2 = 1

(* The deviation of the log the notification tool loaded, whatever became of
   the run. *)
DeviationLoaded ==
    run("stats", loaded, FALSE, FALSE, call.hours_per_day, FALSE, TRUE,
        main_globals(FALSE))

(* C8: the notification tool dispatches a notification exactly when the
   absolute value of total_difftime is at least 10 (overwork for a positive
   deviation, work needed for a negative one), at most one per run. *)
C8_NotifyThreshold ==
    (call.action = "notify" /\ truthy(call.hours_per_day)
     /\ DeviationLoaded.kind = "outdata")
    => LET d == DeviationLoaded.outdata.total_difftime
       IN  notified = IF d >= 10 THEN <<"OVERWORK">>
                      ELSE IF d <= -10 THEN <<"WORK NEEDED">>
                      ELSE <<>>

(* C9: a file is written only by an arrive or quit that returned the updated
   sequence with dry-run not set; after any other run (dry-run, stats, a
   declined operation) the files are as they were loaded. *)
C9_WriteOnlyOnSuccess ==
    [][(wrote' # {} \/ files' # files)
       => /\ call.action = "idle"
          /\ call'.action \in {"arrive", "quit"}
          /\ ret'.kind = "entries"
          /\ ~call'.dry_run]_vars

(* A successful arrival under dry-run, the file left as loaded. *)
C9_Witness ==
    /\ call.action = "arrive"
    /\ call.dry_run
    /\ ret.kind = "entries"
    /\ Len(ret.entries) = Len(loaded) + 1
    /\ wrote = {}
    /\ files[call.timefile] = RowsOf(loaded)

(* C10: after a successful arrive or quit without dry-run, the file the log
   was loaded from is the file written, and it holds the updated log. *)
C10_WrittenWhereLoaded ==
    (call.action \in {"arrive", "quit"} /\ ret.kind = "entries" /\ ~call.dry_run)
    => /\ wrote = {call.timefile}
       /\ files[call.timefile] = RowsOf(ret.entries)

(* C11: quit on a log whose last entry is finished, overwrite requested,
   raises no error: it returns the log with the same length, the end of the
   last entry set to now and every other entry unchanged. *)
C11_QuitOverwrite ==
    (call.action = "quit" /\ Closed(loaded) /\ call.overwrite)
    => /\ ret.kind = "entries"
       /\ Len(ret.entries) = Len(loaded)
       /\ Front(ret.entries) = Front(loaded)
       /\ Last(ret.entries) = [Last(loaded) EXCEPT !.time_stop = Now]

(* C12: arrive on a log whose last entry is unfinished, overwrite requested,
   returns the log with the same length, the start of the last entry set to
   now, its day and its absent end as they were, and every earlier entry
   unchanged. *)
C12_ArriveOverwrite ==
    (call.action = "arrive" /\ Open(loaded) /\ call.overwrite)
    => /\ ret.kind = "entries"
       /\ Len(ret.entries) = Len(loaded)
       /\ Front(ret.entries) = Front(loaded)
       /\ Last(ret.entries).time_start = Now
       /\ Last(ret.entries).date_base = Last(loaded).date_base
       /\ Last(ret.entries).time_stop = None
       /\ Open(ret.entries)

(* A corrected arrival: the session opened on an earlier day at another
   time now starts at the reading of the clock, and is still open. *)
C12_Witness ==
    /\ call.action = "arrive"
    /\ call.overwrite
    /\ Open(loaded)
    /\ Len(loaded) = MaxLen
    /\ Last(loaded).time_start # Now
    /\ Last(loaded).date_base # Today
    /\ ret.kind = "entries"
    /\ Last(ret.entries).time_start = Now
    /\ Open(ret.entries)

(* No entry but the last is unfinished. *)
OnlyLastUnfinished(es) == \A i \in 1..Len(es) - 1 : ~is_unfinished(es[i])

(* C13: the logs the runs start from having no unfinished entry but the
   last, after any sequence of arrive and quit (with or without overwrite,
   declined ones included) every log has no unfinished entry but the last;
   an arrive or quit removes no entry and changes at most the last entry of
   the log it was given, and a declined one changes nothing. *)
C13_OneUnfinishedLast ==
    /\ \A f \in FileNames : OnlyLastUnfinished(get_data(files[f]))
    /\ call.action \in {"arrive", "quit"}
       => /\ Len(entries) = Len(loaded)
          /\ Front(entries) = Front(loaded)
          /\ ret.kind = "None" => entries = loaded
          /\ ret.kind = "entries"
             => /\ Len(ret.entries) >= Len(loaded)
                /\ SubSeq(ret.entries, 1, Len(loaded) - 1) = Front(loaded)
                /\ OnlyLastUnfinished(ret.entries)

(* A declined quit that follows an arrival and a departure recorded by the
   engine. *)
C13_Witness ==
    /\ call.action = "quit"
    /\ ~call.overwrite
    /\ Len(loaded) = MaxLen
    /\ Closed(loaded)
    /\ Last(loaded).time_start \in ClockTimes
    /\ Last(loaded).time_stop \in ClockTimes
    /\ ret.kind = "None"
    /\ entries = loaded
    /\ OnlyLastUnfinished(get_data(files[call.timefile]))

(* No entry is dated after the last one. *)
MaxIsLast(es) == \A i \in 1..Len(es) : es[i].date_base <= Last(es).date_base

(* C14: the logs the runs start from having their maximum date on their
   last entry, and the date of the clock never going backwards, after any
   sequence of arrive and quit the maximum date of every log is the date of
   its last entry, so that the order check at the start of a run never
   fails. *)
C14_MaxDateIsLast ==
    /\ \A f \in FileNames : MaxIsLast(get_data(files[f]))
    /\ call.action # "idle"
       => /\ MaxIsLast(loaded)
          /\ max_date(loaded) = hr_date(Last(loaded))
          /\ ret.kind = "entries" => MaxIsLast(ret.entries)

(* An arrival recorded on a later day than the last entry, the clock having
   advanced since the start. *)
C14_Witness ==
    /\ call.action = "arrive"
    /\ ret.kind = "entries"
    /\ Len(ret.entries) = Len(loaded) + 1
    /\ Last(ret.entries).date_base > Last(loaded).date_base
    /\ Last(ret.entries).date_base = MaxDay
    /\ files["temps"] = RowsOf(ret.entries)

(* C19: the logs the runs start from having no finished entry that ends
   before it starts, and the clock only advancing (across midnight too),
   after any sequence of arrive and quit every finished entry of every log
   has end >= start, the start of an unfinished entry of today is not later
   than now, and stats never fails on a negative duration. *)
C19_NoNegativeDuration ==
    /\ \A f \in FileNames :
          \A i \in 1..Len(files[f]) :
              LET e == get_data(files[f])[i]
              IN  (~is_unfinished(e) \/ e.date_base = Today) => Duration(e) >= 0
    /\ call.action = "stats" => ret.exc # "ValueError"

(* C15: stats never returns a statistics record for a loaded log that is
   not sorted by date (some entry is dated after an entry that follows it):
   the run aborts on the order check. *)
C15_UnsortedAborts ==
    (call.action = "stats" /\ ~DateSorted(loaded)) => ret.kind # "outdata"

AllToday(es) == Len(es) > 0 /\ \A i \in 1..Len(es) : es[i].date_base = Today

(* C16: stats with include_today = False on a log in which every entry is
   dated today completes without an error, the dropping loop stopping on the
   emptied sequence. *)
C16_AllTodayCompletes ==
    (call.action = "stats" /\ call.not_today /\ AllToday(loaded))
    => ret.kind # "raise"

(* The entries that end before they start. *)
Negative(es) == {i \in 1..Len(es) : ~is_unfinished(es[i]) /\ Duration(es[i]) < 0}

(* C17: stats on a log that passes the order check and holds a finished
   entry whose end precedes its start completes, and the entry contributes
   its negative duration to total_worktime. *)
C17_NegativePropagates ==
    (call.action = "stats" /\ ~call.not_today /\ Len(loaded) > 0
     /\ MaxIsLast(loaded) /\ Negative(loaded) # {})
    => /\ ret.kind = "outdata"
       /\ ret.outdata.total_worktime = SumDuration(loaded, 1..Len(loaded))

(* C18: arrive on an empty log returns, without error, a log of length one
   whose entry is dated today, starts now and is unfinished. *)
C18_ArriveOnEmpty ==
    (call.action = "arrive" /\ Len(loaded) = 0)
    => /\ ret.kind = "entries"
       /\ ret.entries = <<Entry(Today, Now, None)>>

(* What run() gives for the arguments and the clock of the last call when
   it is called by the __main__ block of temps.py. *)
RunAsMain ==
    LET r == run(call.action, loaded, call.overwrite, call.dry_run,
                 call.hours_per_day, call.porcelain, ~call.not_today,
                 main_globals(call.overwrite))
    IN  [kind |-> r.kind, exc |-> r.exc, entries |-> r.entries, outdata |-> r.outdata]

(* C20: the outcome of run('arrive') and run('quit') depends on the
   arguments and the clock only: a call under porcelain (print is not
   looked up) gives what the same arguments and clock give in __main__,
   and arrive on a log whose last entry is unfinished takes the correction
   path exactly when its overwrite argument is true. *)
C20_OutcomeOfArguments ==
    (call.action \in {"arrive", "quit"} /\ call.porcelain)
    => /\ ret = RunAsMain
       /\ (call.action = "arrive" /\ Open(loaded))
          => (ret.kind = "entries" <=> call.overwrite)

====
